---- MODULE Spec2Model ----
(***************************************************************************)
(* Model of .circleci/regenerate.py: the build-matrix generator that       *)
(* expands (package type, OS, Python version, compute variant) into the    *)
(* list of CircleCI workflow job descriptors.                              *)
(*                                                                         *)
(* Python values are modelled as follows.                                  *)
(*   str            a TLA+ string; f-strings and + are \o                  *)
(*   list           a sequence                                             *)
(*   dict           a function whose domain is the set of keys present     *)
(*   x or None      None is <<>>, a present value x is <<x>> (Some(x));    *)
(*                  this is used for filter_branch / fb and for the        *)
(*                  results of get_manylinux_image and get_conda_image,    *)
(*                  which fall off their end (return None) when no branch  *)
(*                  matches                                                *)
(* The text produced by indent / yaml.dump is not modelled: build_workflows*)
(* is observed at the list it hands to yaml.dump.                          *)
(***************************************************************************)
EXTENDS Integers, Sequences, FiniteSets, TLC

VARIABLES fn, args, pc, it, fb, w, ret

vars == <<fn, args, pc, it, fb, w, ret>>

-----------------------------------------------------------------------------
(* Bounds of the model (inputs that the code leaves open).                 *)

\* how many of PrefixCandidates are tried as the prefix argument
MaxPrefixes == 2
\* how many of UnknownVariantCandidates are tried as cu_version
MaxUnknownVariants == 3

-----------------------------------------------------------------------------
(* Python primitives.                                                      *)

None == <<>>

Some(x) == <<x>>

\* Python truthiness of an optional string: None and "" are falsy
Falsy(v) == v = None \/ v = Some("")

\* s.startswith(p)
StartsWith(s, p) == Len(s) >= Len(p) /\ SubSeq(s, 1, Len(p)) = p

\* s[n:]
DropPrefix(s, n) == SubSeq(s, n + 1, Len(s))

\* p in s
Contains(s, p) ==
  \E i \in 1..(Len(s) - Len(p) + 1) : SubSeq(s, i, i + Len(p) - 1) = p

\* d[k] = v
SetItem(d, k, v) == (k :> v) @@ d

-----------------------------------------------------------------------------
(* Data declarations.                                                      *)

PYTHON_VERSIONS == <<"3.8", "3.9", "3.10", "3.11">>

RC_PATTERN == "/v[0-9]+(\\.[0-9]+)*-rc[0-9]+/"

BTYPES == <<"wheel", "conda">>

OS_TYPES == <<"linux", "macos", "win">>

cu_versions_dict ==
  [linux |-> <<"cpu", "cu117", "cu118", "cu121", "rocm5.2", "rocm5.3">>,
   win   |-> <<"cpu", "cu117", "cu118", "cu121">>,
   macos |-> <<"cpu">>]

UNICODES == <<FALSE>>

-----------------------------------------------------------------------------
(* get_manylinux_image, get_conda_image                                    *)

get_manylinux_image(cu_version) ==
  IF cu_version = "cpu" THEN Some("pytorch/manylinux-cpu")
  ELSE IF StartsWith(cu_version, "cu")
       THEN Some("pytorch/manylinux-cuda" \o DropPrefix(cu_version, Len("cu")))
  ELSE IF StartsWith(cu_version, "rocm")
       THEN Some("pytorch/manylinux-rocm:" \o DropPrefix(cu_version, Len("rocm")))
  ELSE None

get_conda_image(cu_version) ==
  IF cu_version = "cpu" THEN Some("pytorch/conda-builder:cpu")
  ELSE IF StartsWith(cu_version, "cu")
       THEN Some("pytorch/conda-builder:cuda" \o DropPrefix(cu_version, Len("cu")))
  ELSE None

-----------------------------------------------------------------------------
(* generate_base_workflow, generate_upload_workflow, workflow_pair         *)

\* the "filters" value both generators attach
FiltersClause(filter_branch) ==
  [branches |-> [only |-> filter_branch[1]],
   tags     |-> [only |-> "/v[0-9]+(\\.[0-9]+)*-rc[0-9]+/"]]

WithFilters(d, filter_branch) ==
  IF filter_branch # None
  THEN SetItem(d, "filters", FiltersClause(filter_branch))
  ELSE d

\* mutant: an image the lookup does not find is left out of the dict
WithImages_SkipNone(d, os_type, cu_version) ==
  IF os_type # "win"
  THEN LET d1 == IF get_manylinux_image(cu_version) # None
                 THEN SetItem(d, "wheel_docker_image", get_manylinux_image(cu_version))
                 ELSE d
       IN  IF ~Contains(cu_version, "rocm") /\ get_conda_image(cu_version) # None
           THEN SetItem(d1, "conda_docker_image", get_conda_image(cu_version))
           ELSE d1
  ELSE d

\* mutant: the image fields are attached on every OS
WithImages_AnyOs(d, os_type, cu_version) ==
  LET d1 == SetItem(d, "wheel_docker_image", get_manylinux_image(cu_version))
  IN  IF ~Contains(cu_version, "rocm")
      THEN SetItem(d1, "conda_docker_image", get_conda_image(cu_version))
      ELSE d1

\* lines 148-152: the image fields of a non-Windows job
WithImages(d, os_type, cu_version) ==
  IF os_type # "win"
  THEN LET d1 == SetItem(d, "wheel_docker_image", get_manylinux_image(cu_version))
       IN  IF ~Contains(cu_version, "rocm")
           THEN SetItem(d1, "conda_docker_image", get_conda_image(cu_version))
           ELSE d1
  ELSE d

\* lines 145-146
WithUnicodeAbi(d, os_type, unicode) ==
  IF os_type # "win" /\ unicode THEN SetItem(d, "unicode_abi", "1") ELSE d

generate_base_workflow(base_workflow_name, python_version, cu_version, unicode, os_type, btype, filter_branch) ==
  LET d0 == [name           |-> base_workflow_name,
             python_version |-> python_version,
             cu_version     |-> cu_version]
      d1 == WithUnicodeAbi(d0, os_type, unicode)
      d2 == WithImages(d1, os_type, cu_version)
      d3 == WithFilters(d2, filter_branch)
  IN  ("binary_" \o os_type \o "_" \o btype) :> d3

\* mutant: the macOS case of the subfolder is lost
WithSubfolder_NoMacos(d, os_type, btype, cu_version) ==
  IF btype = "wheel" THEN SetItem(d, "subfolder", cu_version \o "/") ELSE d

\* lines 182-183
WithSubfolder(d, os_type, btype, cu_version) ==
  IF btype = "wheel"
  THEN SetItem(d, "subfolder", IF os_type = "macos" THEN "" ELSE cu_version \o "/")
  ELSE d

generate_upload_workflow(base_workflow_name, os_type, btype, cu_version, filter_branch) ==
  LET d0 == [name     |-> base_workflow_name \o "_upload",
             context  |-> "org-member",
             requires |-> <<base_workflow_name>>]
      d1 == WithSubfolder(d0, os_type, btype, cu_version)
      d2 == WithFilters(d1, filter_branch)
  IN  ("binary_" \o btype \o "_upload") :> d2

\* mutant: the name leaves out the Python version
BaseWorkflowName_NoPython(prefix, os_type, btype, python_version, unicode, cu_version) ==
  LET unicode_suffix == IF unicode THEN "u" ELSE ""
  IN  prefix \o "binary_" \o os_type \o "_" \o btype \o unicode_suffix \o "_" \o cu_version

\* line 86
BaseWorkflowName(prefix, os_type, btype, python_version, unicode, cu_version) ==
  LET unicode_suffix == IF unicode THEN "u" ELSE ""
  IN  prefix \o "binary_" \o os_type \o "_" \o btype \o "_py"
        \o python_version \o unicode_suffix \o "_" \o cu_version

\* mutant: the upload flag is ignored
DoUpload_IgnoreFlag(os_type, btype, upload) ==
  IF os_type = "linux" /\ btype = "wheel" THEN FALSE ELSE TRUE

\* lines 96-99: whether the upload job is appended
DoUpload(os_type, btype, upload) ==
  IF os_type = "linux" /\ btype = "wheel" THEN FALSE ELSE upload

\* mutant: the upload job is put before the base job it requires
workflow_pair_UploadFirst(btype, os_type, python_version, cu_version, unicode, prefix, upload, filter_branch) ==
  LET base_workflow_name ==
        BaseWorkflowName(prefix, os_type, btype, python_version, unicode, cu_version)
      base == generate_base_workflow(base_workflow_name, python_version,
                                     cu_version, unicode, os_type, btype,
                                     filter_branch)
  IN  IF DoUpload(os_type, btype, upload)
      THEN <<generate_upload_workflow(base_workflow_name, os_type, btype,
                                      cu_version, filter_branch), base>>
      ELSE <<base>>

workflow_pair(btype, os_type, python_version, cu_version, unicode, prefix, upload, filter_branch) ==
  LET base_workflow_name ==
        BaseWorkflowName(prefix, os_type, btype, python_version, unicode, cu_version)
      base == generate_base_workflow(base_workflow_name, python_version,
                                     cu_version, unicode, os_type, btype,
                                     filter_branch)
  IN  IF DoUpload(os_type, btype, upload)
      THEN <<base, generate_upload_workflow(base_workflow_name, os_type, btype,
                                            cu_version, filter_branch)>>
      ELSE <<base>>

-----------------------------------------------------------------------------
(* build_workflows: the nested loops.  it = [b, o, p, c, u] holds the      *)
(* indices of the iteration whose body runs next.                          *)

cu_versions(o) == cu_versions_dict[OS_TYPES[o]]

FirstIter == [b |-> 1, o |-> 1, p |-> 1, c |-> 1, u |-> 1]

\* no iteration follows i
LastIter(i) ==
  /\ i.b = Len(BTYPES)
  /\ i.o = Len(OS_TYPES)
  /\ i.p = Len(PYTHON_VERSIONS)
  /\ i.c = Len(cu_versions(i.o))
  /\ i.u = Len(UNICODES)

\* mutant: the Python version loop nested inside the compute variant loop
NextIter_PythonInner(i) ==
  IF i.u < Len(UNICODES) THEN [i EXCEPT !.u = @ + 1]
  ELSE IF i.p < Len(PYTHON_VERSIONS) THEN [i EXCEPT !.p = @ + 1, !.u = 1]
  ELSE IF i.c < Len(cu_versions(i.o)) THEN [i EXCEPT !.c = @ + 1, !.p = 1, !.u = 1]
  ELSE IF i.o < Len(OS_TYPES) THEN [i EXCEPT !.o = @ + 1, !.p = 1, !.c = 1, !.u = 1]
  ELSE [i EXCEPT !.b = @ + 1, !.o = 1, !.p = 1, !.c = 1, !.u = 1]

\* the iteration after i: innermost loop first
NextIter(i) ==
  IF i.u < Len(UNICODES) THEN [i EXCEPT !.u = @ + 1]
  ELSE IF i.c < Len(cu_versions(i.o)) THEN [i EXCEPT !.c = @ + 1, !.u = 1]
  ELSE IF i.p < Len(PYTHON_VERSIONS) THEN [i EXCEPT !.p = @ + 1, !.c = 1, !.u = 1]
  ELSE IF i.o < Len(OS_TYPES) THEN [i EXCEPT !.o = @ + 1, !.p = 1, !.c = 1, !.u = 1]
  ELSE [i EXCEPT !.b = @ + 1, !.o = 1, !.p = 1, !.c = 1, !.u = 1]

\* the loop variables of the iteration that runs next
btype == BTYPES[it.b]
os_type == OS_TYPES[it.o]
python_version == PYTHON_VERSIONS[it.p]
cu_version == cu_versions(it.o)[it.c]
unicode == UNICODES[it.u]

\* line 43
RocmConda(cu, bt) == StartsWith(cu, "rocm") /\ bt = "conda"

\* mutant: "and" where the code has "or"
WindowsNotLatest_And(windows_latest_only, os, filter_branch, py, cu) ==
  /\ windows_latest_only
  /\ os = "win"
  /\ filter_branch = None
  /\ py # PYTHON_VERSIONS[Len(PYTHON_VERSIONS)]
  /\ cu \notin {cu_versions_dict[os][1],
                cu_versions_dict[os][Len(cu_versions_dict[os])]}

\* lines 47-55
WindowsNotLatest(windows_latest_only, os, filter_branch, py, cu) ==
  /\ windows_latest_only
  /\ os = "win"
  /\ filter_branch = None
  /\ \/ py # PYTHON_VERSIONS[Len(PYTHON_VERSIONS)]
     \/ cu \notin {cu_versions_dict[os][1],
                   cu_versions_dict[os][Len(cu_versions_dict[os])]}

\* mutant: the anchor test names another Python version
DocsAnchor_WrongPython(os, cu, bt, py) ==
  os = "linux" /\ cu = "cpu" /\ bt = "wheel" /\ py = "3.9"

\* line 58
DocsAnchor(os, cu, bt, py) ==
  os = "linux" /\ cu = "cpu" /\ bt = "wheel" /\ py = "3.8"

\* lines 46-61: the value of fb after the two overrides
EffectiveFilterBranch(filter_branch, windows_latest_only, bt, os, py, cu) ==
  LET fb1 == IF WindowsNotLatest(windows_latest_only, os, filter_branch, py, cu)
             THEN Some("main")
             ELSE filter_branch
  IN  IF Falsy(fb1) /\ DocsAnchor(os, cu, bt, py) THEN Some("/.*/") ELSE fb1

\* mutant: the Linux wheel skip tests the wrong package type
LinuxWheel_WrongBtype(os, bt) == os = "linux" /\ bt = "conda"

\* line 64
LinuxWheel(os, bt) == os = "linux" /\ bt = "wheel"

\* line 68
MacosWheel(os, bt) == os = "macos" /\ bt = "wheel"

\* line 72
NonWinConda(os, bt) == os # "win" /\ bt = "conda"

\* loop control after the body: next iteration, or leave the loops
Advance ==
  IF LastIter(it)
  THEN pc' = "return" /\ it' = it
  ELSE pc' = "loop" /\ it' = NextIter(it)

CurrentFb ==
  EffectiveFilterBranch(args.filter_branch, args.windows_latest_only,
                        btype, os_type, python_version, cu_version)

\* lines 43-44: continue before fb is assigned
ContinueRocmConda ==
  /\ pc = "loop"
  /\ RocmConda(cu_version, btype)
  /\ Advance
  /\ UNCHANGED <<fn, args, fb, w, ret>>

\* lines 63-65
ContinueLinuxWheel ==
  /\ pc = "loop"
  /\ ~RocmConda(cu_version, btype)
  /\ LinuxWheel(os_type, btype)
  /\ fb' = CurrentFb
  /\ Advance
  /\ UNCHANGED <<fn, args, w, ret>>

\* lines 67-69
ContinueMacosWheel ==
  /\ pc = "loop"
  /\ ~RocmConda(cu_version, btype)
  /\ ~LinuxWheel(os_type, btype)
  /\ MacosWheel(os_type, btype)
  /\ fb' = CurrentFb
  /\ Advance
  /\ UNCHANGED <<fn, args, w, ret>>

\* lines 71-73
ContinueNonWinConda ==
  /\ pc = "loop"
  /\ ~RocmConda(cu_version, btype)
  /\ ~LinuxWheel(os_type, btype)
  /\ ~MacosWheel(os_type, btype)
  /\ NonWinConda(os_type, btype)
  /\ fb' = CurrentFb
  /\ Advance
  /\ UNCHANGED <<fn, args, w, ret>>

\* lines 75-77
AppendWorkflowPair ==
  /\ pc = "loop"
  /\ ~RocmConda(cu_version, btype)
  /\ ~LinuxWheel(os_type, btype)
  /\ ~MacosWheel(os_type, btype)
  /\ ~NonWinConda(os_type, btype)
  /\ fb' = CurrentFb
  /\ w' = w \o workflow_pair(btype, os_type, python_version, cu_version,
                             unicode, args.prefix, args.upload, CurrentFb)
  /\ Advance
  /\ UNCHANGED <<fn, args, ret>>

\* line 79: the list handed to yaml.dump
Return ==
  /\ pc = "return"
  /\ pc' = "done"
  /\ ret' = w
  /\ UNCHANGED <<fn, args, it, fb, w>>

-----------------------------------------------------------------------------
(* Arguments of build_workflows.                                           *)

PrefixCandidates == <<"", "nightly_", "rc_", "x">>

Prefixes == {PrefixCandidates[k] : k \in 1..MaxPrefixes}

FilterBranches == {None, Some("nightly"), Some("")}

BuildArgs ==
  [prefix : Prefixes, filter_branch : FilterBranches, upload : BOOLEAN,
   windows_latest_only : BOOLEAN]

Init ==
  /\ fn = "build_workflows"
  /\ args \in BuildArgs
  /\ pc = "loop"
  /\ it = FirstIter
  /\ fb = None
  /\ w = <<>>
  /\ ret = None

Next ==
  \/ ContinueRocmConda
  \/ ContinueLinuxWheel
  \/ ContinueMacosWheel
  \/ ContinueNonWinConda
  \/ AppendWorkflowPair
  \/ Return

Spec == Init /\ [][Next]_vars

-----------------------------------------------------------------------------
(* The functions called on their own, with arguments drawn from bounded    *)
(* sets: every compute variant of cu_versions_dict and a few variants no   *)
(* branch of the image lookups recognises.                                 *)

UnknownVariantCandidates == <<"xpu", "xrocm5", "", "CU117", "tpu">>

UnknownVariants == {UnknownVariantCandidates[k] : k \in 1..MaxUnknownVariants}

KnownVariants ==
  UNION {{cu_versions_dict[os][k] : k \in 1..Len(cu_versions_dict[os])} :
           os \in DOMAIN cu_versions_dict}

CuInputs == KnownVariants \cup UnknownVariants

OsInputs == {OS_TYPES[k] : k \in 1..Len(OS_TYPES)}

BtypeInputs == {BTYPES[k] : k \in 1..Len(BTYPES)}

PyInputs == {PYTHON_VERSIONS[k] : k \in 1..Len(PYTHON_VERSIONS)}

PureInit ==
  /\ fn = "idle"
  /\ args = None
  /\ pc = "idle"
  /\ it = FirstIter
  /\ fb = None
  /\ w = <<>>
  /\ ret = None

CallGetManylinuxImage ==
  \E cu \in CuInputs :
    /\ pc = "idle"
    /\ fn' = "get_manylinux_image"
    /\ args' = [cu_version |-> cu]
    /\ ret' = get_manylinux_image(cu)
    /\ pc' = "returned"
    /\ UNCHANGED <<it, fb, w>>

CallGetCondaImage ==
  \E cu \in CuInputs :
    /\ pc = "idle"
    /\ fn' = "get_conda_image"
    /\ args' = [cu_version |-> cu]
    /\ ret' = get_conda_image(cu)
    /\ pc' = "returned"
    /\ UNCHANGED <<it, fb, w>>

CallGenerateBaseWorkflow ==
  \E py \in PyInputs, cu \in CuInputs, uc \in BOOLEAN, os \in OsInputs,
     bt \in BtypeInputs, f \in FilterBranches :
    /\ pc = "idle"
    /\ fn' = "generate_base_workflow"
    /\ args' = [base_workflow_name |-> "job", python_version |-> py,
                cu_version |-> cu, unicode |-> uc, os_type |-> os,
                btype |-> bt, filter_branch |-> f]
    /\ ret' = generate_base_workflow("job", py, cu, uc, os, bt, f)
    /\ pc' = "returned"
    /\ UNCHANGED <<it, fb, w>>

CallGenerateUploadWorkflow ==
  \E cu \in CuInputs, os \in OsInputs, bt \in BtypeInputs, f \in FilterBranches :
    /\ pc = "idle"
    /\ fn' = "generate_upload_workflow"
    /\ args' = [base_workflow_name |-> "job", os_type |-> os, btype |-> bt,
                cu_version |-> cu, filter_branch |-> f]
    /\ ret' = generate_upload_workflow("job", os, bt, cu, f)
    /\ pc' = "returned"
    /\ UNCHANGED <<it, fb, w>>

CallWorkflowPair ==
  \E bt \in BtypeInputs, os \in OsInputs, py \in PyInputs, cu \in CuInputs,
     uc \in BOOLEAN, px \in Prefixes, up \in BOOLEAN, f \in FilterBranches :
    /\ pc = "idle"
    /\ fn' = "workflow_pair"
    /\ args' = [btype |-> bt, os_type |-> os, python_version |-> py,
                cu_version |-> cu, unicode |-> uc, prefix |-> px,
                upload |-> up, filter_branch |-> f]
    /\ ret' = workflow_pair(bt, os, py, cu, uc, px, up, f)
    /\ pc' = "returned"
    /\ UNCHANGED <<it, fb, w>>

PureNext ==
  \/ CallGetManylinuxImage
  \/ CallGetCondaImage
  \/ CallGenerateBaseWorkflow
  \/ CallGenerateUploadWorkflow
  \/ CallWorkflowPair

PureSpec == PureInit /\ [][PureNext]_vars

-----------------------------------------------------------------------------
(* Reading the emitted list.                                               *)

\* a job is a one-key dict {kind: fields}
JobKey(j) == CHOOSE k \in DOMAIN j : TRUE

JobBody(j) == j[JobKey(j)]

JobName(j) == JobBody(j).name

BaseKey(os, bt) == "binary_" \o os \o "_" \o bt

IsBase(j) == \E os \in OsInputs, bt \in BtypeInputs : JobKey(j) = BaseKey(os, bt)

IsUpload(j) == \E bt \in BtypeInputs : JobKey(j) = "binary_" \o bt \o "_upload"

HasFilters(j) == "filters" \in DOMAIN JobBody(j)

\* the name the design gives the base job of an axis combination
ExpectedName(px, os, bt, py, cu) ==
  px \o "binary_" \o os \o "_" \o bt \o "_py" \o py \o "_" \o cu

\* the combinations the skip rules exclude
Excluded(bt, os, cu) ==
  \/ bt = "wheel" /\ os = "linux"
  \/ bt = "wheel" /\ os = "macos"
  \/ bt = "conda" /\ os # "win"
  \/ bt = "conda" /\ StartsWith(cu, "rocm")

\* the axis product the loops range over
AxisProduct ==
  {c \in [bt : BtypeInputs, os : OsInputs, py : PyInputs, cu : KnownVariants] :
     \E k \in 1..Len(cu_versions_dict[c.os]) : cu_versions_dict[c.os][k] = c.cu}

\* base job j describes combination c
BaseOf(j, c) ==
  /\ JobKey(j) = BaseKey(c.os, c.bt)
  /\ JobBody(j).python_version = c.py
  /\ JobBody(j).cu_version = c.cu

\* names of the base jobs of the excluded combinations, per prefix
ExcludedNames ==
  [px \in Prefixes |->
     {ExpectedName(px, c.os, c.bt, c.py, c.cu) :
        c \in {x \in [bt : BtypeInputs, os : OsInputs, py : PyInputs,
                      cu : KnownVariants] : Excluded(x.bt, x.os, x.cu)}}]

-----------------------------------------------------------------------------
-----------------------------------------------------------------------------
(* C2: within the list of one build_workflows run no two jobs, base and    *)
(* upload jobs together, carry the same name.                              *)
C2_UniqueNames ==
  fn = "build_workflows" =>
    \A i, j \in 1..Len(w) : i # j => JobName(w[i]) # JobName(w[j])

\* a finished run with a non-empty prefix and both kinds of jobs
C2_Witness ==
  /\ fn = "build_workflows"
  /\ pc = "done"
  /\ args.prefix # ""
  /\ args.upload
  /\ Len(ret) > 2
  /\ IsBase(ret[1])
  /\ IsUpload(ret[2])

-----------------------------------------------------------------------------
(* C3: at every point of a pass, each upload job already in the list       *)
(* requires exactly one name, that name is the name of exactly one base    *)
(* job of the list, and that base job stands before the upload job.        *)
C3_RequiresEarlier ==
  fn = "build_workflows" =>
    \A i \in 1..Len(w) :
      IsUpload(w[i]) =>
        LET r == JobBody(w[i]).requires
        IN  /\ Len(r) = 1
            /\ Cardinality({k \in 1..Len(w) : IsBase(w[k]) /\ JobName(w[k]) = r[1]}) = 1
            /\ \E k \in 1..(i - 1) : IsBase(w[k]) /\ JobName(w[k]) = r[1]

\* in the middle of a pass, the list ends with an upload job
C3_Witness ==
  /\ fn = "build_workflows"
  /\ pc = "loop"
  /\ Len(w) >= 4
  /\ IsUpload(w[Len(w)])

-----------------------------------------------------------------------------
(* C4.  The Linux / wheel / CPU / Python 3.8 combination.                  *)

AnchorCombination == [bt |-> "wheel", os |-> "linux", py |-> "3.8", cu |-> "cpu"]

\* job j is the base job of the anchor combination, or an upload job for it
AnchorJob(j) ==
  LET n == ExpectedName(args.prefix, "linux", "wheel", "3.8", "cpu")
  IN  \/ IsBase(j) /\ (BaseOf(j, AnchorCombination) \/ JobName(j) = n)
      \/ IsUpload(j) /\ (JobBody(j).requires = <<n>> \/ JobName(j) = n \o "_upload")

\* the iteration about to run is the anchor combination's
AtAnchor ==
  /\ fn = "build_workflows"
  /\ pc = "loop"
  /\ btype = "wheel"
  /\ os_type = "linux"
  /\ python_version = "3.8"
  /\ cu_version = "cpu"

-----------------------------------------------------------------------------
(* C5: with no branch filter given, a Windows job gets the filter branch   *)
(* "main" when windows_latest_only is set and its Python version is not    *)
(* 3.11 or its compute variant is neither cpu nor cu121; every other       *)
(* Windows job (and every Windows job when windows_latest_only is not set) *)
(* gets no filter clause.  An upload job is judged by the base job it      *)
(* requires.                                                               *)

IsWindows(j) == \E bt \in BtypeInputs : JobKey(j) = BaseKey("win", bt)

\* the base job an upload job requires
RequiredBase(j) ==
  w[CHOOSE k \in 1..Len(w) : IsBase(w[k]) /\ <<JobName(w[k])>> = JobBody(j).requires]

Boundary(b) ==
  /\ JobBody(b).python_version = "3.11"
  /\ JobBody(b).cu_version \in {"cpu", "cu121"}

FilterAsRestricted(j, b) ==
  IF args.windows_latest_only /\ ~Boundary(b)
  THEN HasFilters(j) /\ JobBody(j).filters.branches.only = "main"
  ELSE ~HasFilters(j)

\* C5: the filter clause of every Windows job when no branch filter is given
C5_WindowsLatestOnly ==
  (fn = "build_workflows" /\ args.filter_branch = None) =>
    \A k \in 1..Len(w) :
      /\ (IsBase(w[k]) /\ IsWindows(w[k])) => FilterAsRestricted(w[k], w[k])
      /\ (IsUpload(w[k]) /\ IsWindows(RequiredBase(w[k]))) =>
           FilterAsRestricted(w[k], RequiredBase(w[k]))

\* a finished restricted run holding a job forced to main, a boundary job
\* without filter, and a 3.11 job of a middle variant forced to main
C5_Witness ==
  /\ fn = "build_workflows"
  /\ pc = "done"
  /\ args.filter_branch = None
  /\ args.windows_latest_only
  /\ \E k \in 1..Len(ret) :
       /\ IsBase(ret[k]) /\ IsWindows(ret[k]) /\ Boundary(ret[k])
       /\ ~HasFilters(ret[k])
  /\ \E k \in 1..Len(ret) :
       /\ IsBase(ret[k]) /\ IsWindows(ret[k])
       /\ JobBody(ret[k]).python_version = "3.11"
       /\ JobBody(ret[k]).cu_version = "cu117"
       /\ HasFilters(ret[k])
  /\ \E k \in 1..Len(ret) :
       /\ IsBase(ret[k]) /\ IsWindows(ret[k])
       /\ JobBody(ret[k]).python_version = "3.8"
       /\ JobBody(ret[k]).cu_version = "cpu"
       /\ HasFilters(ret[k])

-----------------------------------------------------------------------------
(* C6: the base jobs stand in the list in iteration order: package type    *)
(* first (wheel, conda), then OS (linux, macos, win), then Python version  *)
(* (3.8, 3.9, 3.10, 3.11), then compute variant in the order of the OS's   *)
(* list.                                                                   *)

IndexOf(seq, v) == CHOOSE k \in 1..Len(seq) : seq[k] = v

\* the axis tuple of a base job, as positions in the axis lists
AxisRank(j) ==
  LET c  == CHOOSE x \in [os : OsInputs, bt : BtypeInputs] :
              JobKey(j) = BaseKey(x.os, x.bt)
  IN  <<IndexOf(BTYPES, c.bt),
        IndexOf(OS_TYPES, c.os),
        IndexOf(PYTHON_VERSIONS, JobBody(j).python_version),
        IndexOf(cu_versions_dict[c.os], JobBody(j).cu_version)>>

LexLess(a, b) ==
  \E n \in 1..Len(a) : a[n] < b[n] /\ \A m \in 1..(n - 1) : a[m] = b[m]

\* C6: an earlier base job has the lexicographically smaller axis tuple
C6_IterationOrder ==
  fn = "build_workflows" =>
    \A i, j \in 1..Len(w) :
      (i < j /\ IsBase(w[i]) /\ IsBase(w[j])) =>
        LexLess(AxisRank(w[i]), AxisRank(w[j]))

\* a finished run: wheel before conda, and within one package type and
\* Python version the variants in list order
C6_Witness ==
  /\ fn = "build_workflows"
  /\ pc = "done"
  /\ ~args.upload
  /\ Len(ret) >= 6
  /\ AxisRank(ret[1]) = <<1, 3, 1, 1>>
  /\ AxisRank(ret[2]) = <<1, 3, 1, 2>>
  /\ AxisRank(ret[5]) = <<1, 3, 2, 1>>
  /\ AxisRank(ret[Len(ret)]) = <<2, 3, 4, 4>>

-----------------------------------------------------------------------------
(* C7.  A compute variant no branch of the image lookups recognises.       *)

Unrecognized(cu) ==
  cu # "cpu" /\ ~StartsWith(cu, "cu") /\ ~StartsWith(cu, "rocm")

ImageKeys == {"wheel_docker_image", "conda_docker_image"}

\* a base job was built for a non-Windows OS and an unrecognised variant
UnrecognizedBaseBuilt ==
  /\ fn \in {"generate_base_workflow", "workflow_pair"}
  /\ pc = "returned"
  /\ args.os_type # "win"
  /\ Unrecognized(args.cu_version)

\* the base job the call returned
BuiltBase == IF fn = "workflow_pair" THEN ret[1] ELSE ret

\* C7 as stated: the image keys are absent from the descriptor.
C7_ImageKeysAbsent ==
  UnrecognizedBaseBuilt => DOMAIN JobBody(BuiltBase) \cap ImageKeys = {}

\* C7 amended: the descriptor is built, and it carries wheel_docker_image
\* with the value None; it carries conda_docker_image with the value None
\* too, unless the variant's text contains "rocm", and then
\* conda_docker_image is absent.
C7_ImageKeysNull ==
  UnrecognizedBaseBuilt =>
    LET d == JobBody(BuiltBase)
    IN  /\ IsBase(BuiltBase)
        /\ "wheel_docker_image" \in DOMAIN d
        /\ d["wheel_docker_image"] = None
        /\ IF Contains(args.cu_version, "rocm")
           THEN "conda_docker_image" \notin DOMAIN d
           ELSE /\ "conda_docker_image" \in DOMAIN d
                /\ d["conda_docker_image"] = None

\* generate_base_workflow returned for linux and the variant "xpu"
C7_Witness ==
  /\ fn = "generate_base_workflow"
  /\ pc = "returned"
  /\ args.os_type = "linux"
  /\ args.cu_version = "xpu"
  /\ Unrecognized(args.cu_version)
  /\ ImageKeys \subseteq DOMAIN JobBody(ret)
  /\ JobBody(ret)["wheel_docker_image"] = None

-----------------------------------------------------------------------------
(* C8: when upload is requested, workflow_pair returns the base job alone  *)
(* for a Linux wheel and otherwise the base job followed by one upload job *)
(* that requires it; the upload job has a filter clause exactly when the   *)
(* base job has one, the same clause, with the given branch and the        *)
(* release-candidate tag pattern; it has a subfolder only for a wheel,     *)
(* the compute variant followed by "/", and "" for a macOS wheel.          *)
C8_UploadCopiesFilter ==
  (fn = "workflow_pair" /\ pc = "returned" /\ args.upload) =>
    IF args.os_type = "linux" /\ args.btype = "wheel"
    THEN Len(ret) = 1 /\ IsBase(ret[1])
    ELSE /\ Len(ret) = 2
         /\ IsBase(ret[1])
         /\ IsUpload(ret[2])
         /\ JobBody(ret[2]).requires = <<JobName(ret[1])>>
         /\ HasFilters(ret[2]) <=> HasFilters(ret[1])
         /\ HasFilters(ret[1]) <=> args.filter_branch # None
         /\ HasFilters(ret[2]) =>
              /\ JobBody(ret[2]).filters = JobBody(ret[1]).filters
              /\ JobBody(ret[2]).filters.branches.only = args.filter_branch[1]
              /\ JobBody(ret[2]).filters.tags.only = RC_PATTERN
         /\ IF args.btype = "wheel"
            THEN /\ "subfolder" \in DOMAIN JobBody(ret[2])
                 /\ JobBody(ret[2]).subfolder =
                      (IF args.os_type = "macos" THEN "" ELSE args.cu_version \o "/")
            ELSE "subfolder" \notin DOMAIN JobBody(ret[2])

\* an upload job for a filtered macOS wheel, with the empty subfolder
C8_Witness ==
  /\ fn = "workflow_pair"
  /\ pc = "returned"
  /\ args.upload
  /\ args.os_type = "macos"
  /\ args.btype = "wheel"
  /\ args.filter_branch = Some("nightly")
  /\ Len(ret) = 2
  /\ HasFilters(ret[2])
  /\ JobBody(ret[2]).subfolder = ""

-----------------------------------------------------------------------------
(* C9: every base job emitted for Windows is named                         *)
(* {prefix}binary_win_{package type}_py{python version}_{compute variant}  *)
(* and has no wheel_docker_image, conda_docker_image or unicode_abi field; *)
(* with the empty prefix the returned list holds the job                   *)
(* binary_win_conda_py3.9_cu118 for conda, Python 3.9, cu118.              *)

NonWindowsKeys == {"wheel_docker_image", "conda_docker_image", "unicode_abi"}

\* C9: name and fields of every Windows base job, and the conda 3.9 cu118 job
C9_WindowsBase ==
  fn = "build_workflows" =>
    /\ \A k \in 1..Len(w) :
         (IsBase(w[k]) /\ IsWindows(w[k])) =>
           /\ \E bt \in BtypeInputs :
                /\ JobKey(w[k]) = BaseKey("win", bt)
                /\ JobName(w[k]) =
                     ExpectedName(args.prefix, "win", bt,
                                  JobBody(w[k]).python_version,
                                  JobBody(w[k]).cu_version)
           /\ DOMAIN JobBody(w[k]) \cap NonWindowsKeys = {}
    /\ (pc = "done" /\ args.prefix = "") =>
         \E k \in 1..Len(ret) :
           /\ JobKey(ret[k]) = "binary_win_conda"
           /\ JobName(ret[k]) = "binary_win_conda_py3.9_cu118"
           /\ JobBody(ret[k]).python_version = "3.9"
           /\ JobBody(ret[k]).cu_version = "cu118"
           /\ DOMAIN JobBody(ret[k]) \cap NonWindowsKeys = {}

\* a finished run with the empty prefix that emitted the conda 3.9 cu118 job
C9_Witness ==
  /\ fn = "build_workflows"
  /\ pc = "done"
  /\ args.prefix = ""
  /\ \E k \in 1..Len(ret) :
       /\ IsBase(ret[k])
       /\ IsWindows(ret[k])
       /\ JobName(ret[k]) = "binary_win_conda_py3.9_cu118"

-----------------------------------------------------------------------------
(* C10: with upload=False the list holds no upload job; with upload=True   *)
(* it alternates base job, upload job, the upload job named after the base *)
(* job before it with "_upload" appended; the returned list holds 32 base  *)
(* jobs, so 32 entries without and 64 with upload.                         *)
C10_Alternation ==
  fn = "build_workflows" =>
    /\ ~args.upload => \A k \in 1..Len(w) : IsBase(w[k]) /\ ~IsUpload(w[k])
    /\ args.upload =>
         /\ Len(w) % 2 = 0
         /\ \A k \in 1..Len(w) :
              IF k % 2 = 1
              THEN /\ IsBase(w[k])
                   /\ IsUpload(w[k + 1])
                   /\ JobName(w[k + 1]) = JobName(w[k]) \o "_upload"
              ELSE IsUpload(w[k]) /\ ~IsBase(w[k])
    /\ pc = "done" =>
         /\ Cardinality({k \in 1..Len(ret) : IsBase(ret[k])}) = 32
         /\ Len(ret) = IF args.upload THEN 64 ELSE 32

\* a finished run with upload set and 64 entries
C10_Witness ==
  /\ fn = "build_workflows"
  /\ pc = "done"
  /\ args.upload
  /\ Len(ret) = 64
  /\ IsUpload(ret[64])

====
